---- MODULE Spec2Model ----
(***************************************************************************)
(* Window-visibility lifecycle of the waa-shell desktop shell              *)
(* (src-tauri/src/lib.rs, fn run): the tray menu, the tray icon click, the *)
(* global shortcut Ctrl+Alt+A and the close interceptor, as callbacks      *)
(* dispatched one at a time by the host event loop.                        *)
(***************************************************************************)
EXTENDS Integers, Sequences, FiniteSets, TLC

\* Number of events the event loop dispatches in the explored runs.
MaxEvents == 3

\* The two named windows of the application.
Windows == {"main", "launcher"}

\* Identifiers a menu event can carry: the three items of the tray menu and
\* one identifier that belongs to none of them.
MenuIds == {"quit", "show_hide", "toggle_launcher", "other"}

\* tauri::tray::TrayIconEvent variants, mouse buttons and button states.
TrayEventTypes == {"Click", "DoubleClick", "Enter", "Move", "Leave"}
MouseButtons == {"Left", "Right", "Middle"}
MouseButtonStates == {"Up", "Down"}

\* tauri_plugin_global_shortcut::ShortcutState
ShortcutStates == {"Pressed", "Released"}

\* tauri::WindowEvent variants the interceptor is handed.
WindowEventTypes == {"CloseRequested", "Focused", "Resized"}

\* Fallible calls on a window handle; each returns a Result.
WindowCalls == {"is_visible", "hide", "show", "unminimize", "set_focus"}

\* Points of setup that can fail.
SetupFailures == {"none", "quit_i", "show_hide_i", "toggle_launcher_i",
                  "menu", "icon", "tray", "shortcut"}

VARIABLES
    status,      \* "setup", "running", "exited", "aborted", "crashed"
    exitCode,    \* {} while no exit code was requested, else {code}
    registry,    \* names for which get_webview_window returns Some
    visible,     \* window name -> is the window shown
    minimized,   \* window name -> is the window minimized
    focus,       \* the window holding input focus, or "none"
    trayBuilt,   \* the tray icon and its menu exist
    registered,  \* the global shortcut is bound to its handler
    logged,      \* the registration failure was written to stderr
    lastEvent,   \* the event dispatched last
    ops,         \* the calls the last handler made, in order
    nEvents,     \* number of events dispatched so far
    visibleBefore, \* window name -> was it shown before the last event
    setupError   \* the point at which setup failed, or "none"

vars == <<status, exitCode, registry, visible, minimized, focus, trayBuilt,
          registered, logged, lastEvent, ops, nEvents, visibleBefore,
          setupError>>

NoEvent == [kind |-> "none", id |-> "-", button |-> "-", state |-> "-", window |-> "-"]

----------------------------------------------------------------------------
\* The world a handler acts on: the windows, the calls made so far and how
\* the handler ended ("ok", "exit" with a code, or "panic").

World == [visible |-> visible, minimized |-> minimized, focus |-> focus,
          ops |-> <<>>, outcome |-> "ok", code |-> {}]

LogCall(W, w, call, ok) ==
    [W EXCEPT !.ops = Append(@, [window |-> w, call |-> call, ok |-> ok])]

\* Variant: a failed query counts as visible.
is_visible_DefaultTrue(W, w, fail) ==
    IF "is_visible" \in fail THEN TRUE ELSE W.visible[w]

\* window.is_visible().unwrap_or(false)
is_visible(W, w, fail) ==
    IF "is_visible" \in fail THEN FALSE ELSE W.visible[w]

\* window.hide(): a hidden window cannot keep the input focus.
hide(W, w, fail) ==
    LET ok == "hide" \notin fail
        W1 == LogCall(W, w, "hide", ok)
    IN  IF ok
        THEN [W1 EXCEPT !.visible[w] = FALSE,
                        !.focus = IF @ = w THEN "none" ELSE @]
        ELSE W1

\* window.show()
show(W, w, fail) ==
    LET ok == "show" \notin fail
        W1 == LogCall(W, w, "show", ok)
    IN  IF ok THEN [W1 EXCEPT !.visible[w] = TRUE] ELSE W1

\* window.unminimize()
unminimize(W, w, fail) ==
    LET ok == "unminimize" \notin fail
        W1 == LogCall(W, w, "unminimize", ok)
    IN  IF ok THEN [W1 EXCEPT !.minimized[w] = FALSE] ELSE W1

\* window.set_focus()
set_focus(W, w, fail) ==
    LET ok == "set_focus" \notin fail
        W1 == LogCall(W, w, "set_focus", ok)
    IN  IF ok THEN [W1 EXCEPT !.focus = w] ELSE W1

\* Variant: the lookup result is not examined.
get_webview_window_Unchecked(w) == TRUE

\* app.get_webview_window(name) is Some
get_webview_window(w) == w \in registry

\* The visibility query is itself a call on the handle.
QueryVisible(W, w, fail) == LogCall(W, w, "is_visible", "is_visible" \notin fail)

----------------------------------------------------------------------------
\* Variant: a failed show ends the handler.
ShowHide_StopsOnError(W, fail) ==
    IF get_webview_window("main")
    THEN LET Q == QueryVisible(W, "main", fail)
         IN  IF is_visible(W, "main", fail)
             THEN hide(Q, "main", fail)
             ELSE IF "show" \in fail
                  THEN show(Q, "main", fail)
                  ELSE set_focus(show(Q, "main", fail), "main", fail)
    ELSE W

\* Variant: the visible branch is missing, the window is always shown.
ShowHide_NeverHides(W, fail) ==
    IF get_webview_window("main")
    THEN set_focus(show(QueryVisible(W, "main", fail), "main", fail), "main", fail)
    ELSE W

\* on_menu_event, arm "show_hide"
ShowHide(W, fail) ==
    IF get_webview_window("main")
    THEN LET Q == QueryVisible(W, "main", fail)
         IN  IF is_visible(W, "main", fail)
             THEN hide(Q, "main", fail)
             ELSE set_focus(show(Q, "main", fail), "main", fail)
    ELSE W

\* Variant: the focus is requested before the launcher is un-minimized.
ToggleLauncher_FocusFirst(W, fail) ==
    IF get_webview_window("launcher")
    THEN LET Q == QueryVisible(W, "launcher", fail)
         IN  IF is_visible(W, "launcher", fail)
             THEN hide(Q, "launcher", fail)
             ELSE unminimize(set_focus(show(Q, "launcher", fail),
                                       "launcher", fail), "launcher", fail)
    ELSE W

\* Variant: the launcher is shown and focused without being un-minimized.
ToggleLauncher_NoUnminimize(W, fail) ==
    IF get_webview_window("launcher")
    THEN LET Q == QueryVisible(W, "launcher", fail)
         IN  IF is_visible(W, "launcher", fail)
             THEN hide(Q, "launcher", fail)
             ELSE set_focus(show(Q, "launcher", fail), "launcher", fail)
    ELSE W

\* on_menu_event, arm "toggle_launcher"
ToggleLauncher(W, fail) ==
    IF get_webview_window("launcher")
    THEN LET Q == QueryVisible(W, "launcher", fail)
         IN  IF is_visible(W, "launcher", fail)
             THEN hide(Q, "launcher", fail)
             ELSE set_focus(unminimize(show(Q, "launcher", fail),
                                       "launcher", fail), "launcher", fail)
    ELSE W

\* Variant: the exit code is not the one asked for.
Exit_Nonzero(W, c) == [W EXCEPT !.outcome = "exit", !.code = {c + 1}]

\* app.exit(0)
Exit(W, c) == [W EXCEPT !.outcome = "exit", !.code = {c}]

\* on_menu_event: match event.id.as_ref()
on_menu_event(W, id, fail) ==
    CASE id = "quit" -> Exit(W, 0)
      [] id = "show_hide" -> ShowHide(W, fail)
      [] id = "toggle_launcher" -> ToggleLauncher(W, fail)
      [] OTHER -> W

\* Variant: the window is shown without being given the focus.
on_tray_icon_event_NoFocus(W, type, button, bstate, fail) ==
    IF type = "Click" /\ button = "Left"
    THEN IF get_webview_window("main")
         THEN LET Q == QueryVisible(W, "main", fail)
              IN  IF is_visible(W, "main", fail)
                  THEN hide(Q, "main", fail)
                  ELSE show(Q, "main", fail)
         ELSE W
    ELSE W

\* Variant: the button of the click is not examined.
on_tray_icon_event_AnyButton(W, type, button, bstate, fail) ==
    IF type = "Click"
    THEN IF get_webview_window("main")
         THEN LET Q == QueryVisible(W, "main", fail)
              IN  IF is_visible(W, "main", fail)
                  THEN hide(Q, "main", fail)
                  ELSE set_focus(show(Q, "main", fail), "main", fail)
         ELSE W
    ELSE W

\* Variant: the show branch is the launcher's, with its unminimize.
on_tray_icon_event_Unminimizes(W, type, button, bstate, fail) ==
    IF type = "Click" /\ button = "Left"
    THEN IF get_webview_window("main")
         THEN LET Q == QueryVisible(W, "main", fail)
              IN  IF is_visible(W, "main", fail)
                  THEN hide(Q, "main", fail)
                  ELSE set_focus(unminimize(show(Q, "main", fail),
                                            "main", fail), "main", fail)
         ELSE W
    ELSE W

\* Variant: only the release of the button acts.
on_tray_icon_event_UpOnly(W, type, button, bstate, fail) ==
    IF type = "Click" /\ button = "Left" /\ bstate = "Up"
    THEN IF get_webview_window("main")
         THEN LET Q == QueryVisible(W, "main", fail)
              IN  IF is_visible(W, "main", fail)
                  THEN hide(Q, "main", fail)
                  ELSE set_focus(show(Q, "main", fail), "main", fail)
         ELSE W
    ELSE W

\* on_tray_icon_event: only Click { button: Left, .. } acts.
on_tray_icon_event(W, type, button, bstate, fail) ==
    IF type = "Click" /\ button = "Left"
    THEN IF get_webview_window("main")
         THEN LET Q == QueryVisible(W, "main", fail)
              IN  IF is_visible(W, "main", fail)
                  THEN hide(Q, "main", fail)
                  ELSE set_focus(show(Q, "main", fail), "main", fail)
         ELSE W
    ELSE W

\* Variant: the branches of the visibility test are swapped.
on_shortcut_Swapped(W, state, fail) ==
    IF state = "Pressed"
    THEN IF get_webview_window("launcher")
         THEN LET Q == QueryVisible(W, "launcher", fail)
              IN  IF is_visible(W, "launcher", fail)
                  THEN set_focus(unminimize(show(Q, "launcher", fail),
                                            "launcher", fail), "launcher", fail)
                  ELSE hide(Q, "launcher", fail)
         ELSE W
    ELSE W

\* Variant: the handler does not look at the state of the event.
on_shortcut_AnyState(W, state, fail) ==
    IF get_webview_window("launcher")
    THEN LET Q == QueryVisible(W, "launcher", fail)
         IN  IF is_visible(W, "launcher", fail)
             THEN hide(Q, "launcher", fail)
             ELSE set_focus(unminimize(show(Q, "launcher", fail),
                                       "launcher", fail), "launcher", fail)
    ELSE W

\* The handler given to on_shortcut.
on_shortcut(W, state, fail) ==
    IF state = "Pressed"
    THEN IF get_webview_window("launcher")
         THEN LET Q == QueryVisible(W, "launcher", fail)
              IN  IF is_visible(W, "launcher", fail)
                  THEN hide(Q, "launcher", fail)
                  ELSE set_focus(unminimize(show(Q, "launcher", fail),
                                            "launcher", fail), "launcher", fail)
         ELSE W
    ELSE W

\* api.prevent_close()
prevent_close(W, w) == LogCall(W, w, "prevent_close", TRUE)

\* Variant: the Err of hide is discarded.
hide_unwrap_Discarded(W, w, fail) == hide(W, w, fail)

\* window.hide().unwrap(): an Err panics in the handler.
hide_unwrap(W, w, fail) ==
    LET H == hide(W, w, fail)
    IN  IF "hide" \in fail THEN [H EXCEPT !.outcome = "panic"] ELSE H

\* on_window_event: only CloseRequested acts.
on_window_event(W, w, type, fail) ==
    IF type = "CloseRequested"
    THEN LET H == hide_unwrap(W, w, fail)
         IN  IF H.outcome = "panic" THEN H ELSE prevent_close(H, w)
    ELSE W

----------------------------------------------------------------------------
\* The host's default action for a close request: the window is destroyed
\* unless the handler cancelled it.
Prevented(R, w) ==
    \E i \in 1..Len(R.ops) : R.ops[i].call = "prevent_close" /\ R.ops[i].window = w

AfterClose(R, ev) ==
    IF ev.kind = "window" /\ ev.id = "CloseRequested" /\ R.outcome = "ok"
       /\ ~Prevented(R, ev.window)
    THEN registry \ {ev.window}
    ELSE registry

\* The calls of a handler run that returned Err.
Failed(R) == {R.ops[i].call : i \in {j \in 1..Len(R.ops) : ~R.ops[j].ok}}

\* One turn of the event loop: the handler's result R becomes the state.
\* fail names exactly the calls that returned Err during the run.
Dispatch(ev, R, fail) ==
    /\ status = "running"
    /\ nEvents < MaxEvents
    /\ fail = Failed(R)
    /\ nEvents' = nEvents + 1
    /\ lastEvent' = ev
    /\ visible' = R.visible
    /\ minimized' = R.minimized
    /\ focus' = R.focus
    /\ ops' = R.ops
    /\ status' = CASE R.outcome = "exit" -> "exited"
                   [] R.outcome = "panic" -> "crashed"
                   [] OTHER -> "running"
    /\ exitCode' = R.code
    /\ registry' = AfterClose(R, ev)
    /\ visibleBefore' = visible
    /\ UNCHANGED <<trayBuilt, registered, logged, setupError>>

MenuEventId(id) ==
    \E fail \in SUBSET WindowCalls :
        /\ trayBuilt
        /\ Dispatch([NoEvent EXCEPT !.kind = "menu", !.id = id],
                    on_menu_event(World, id, fail), fail)

MenuEvent == \E id \in MenuIds : MenuEventId(id)

TrayIconEvent ==
    \E type \in TrayEventTypes, button \in MouseButtons,
       bstate \in MouseButtonStates, fail \in SUBSET WindowCalls :
        /\ trayBuilt
        /\ type \notin {"Click", "DoubleClick"} => button = "Left" /\ bstate = "Up"
        /\ Dispatch([NoEvent EXCEPT !.kind = "tray", !.id = type,
                                    !.button = button, !.state = bstate],
                    on_tray_icon_event(World, type, button, bstate, fail), fail)

\* A press or release of Ctrl+Alt+A; the handler runs only if it was bound.
ShortcutEvent ==
    \E state \in ShortcutStates, fail \in SUBSET WindowCalls :
        Dispatch([NoEvent EXCEPT !.kind = "shortcut", !.state = state],
                 IF registered THEN on_shortcut(World, state, fail) ELSE World,
                 fail)

WindowEvent ==
    \E w \in registry, type \in WindowEventTypes, fail \in SUBSET WindowCalls :
        Dispatch([NoEvent EXCEPT !.kind = "window", !.id = type, !.window = w],
                 on_window_event(World, w, type, fail), fail)

\* Variant: a failed registration is logged and then aborts startup.
setup_RegistrationFatal(failAt) ==
    /\ status = "setup"
    /\ IF failAt # "none"
       THEN /\ status' = "aborted"
            /\ logged' = (failAt = "shortcut")
            /\ trayBuilt' = (failAt = "shortcut")
            /\ UNCHANGED registered
       ELSE /\ status' = "running"
            /\ trayBuilt' = TRUE
            /\ registered' = TRUE
            /\ logged' = FALSE
    /\ setupError' = failAt
    /\ UNCHANGED <<exitCode, registry, visible, minimized, focus, lastEvent,
                   ops, nEvents, visibleBefore>>

\* Variant: a failed build of the tray icon is not propagated.
setup_TrayErrorDropped(failAt) ==
    /\ status = "setup"
    /\ IF failAt \in {"quit_i", "show_hide_i", "toggle_launcher_i", "menu",
                      "icon"}
       THEN /\ status' = "aborted"
            /\ UNCHANGED <<trayBuilt, registered, logged>>
       ELSE /\ status' = "running"
            /\ trayBuilt' = (failAt # "tray")
            /\ registered' = (failAt # "shortcut")
            /\ logged' = (failAt = "shortcut")
    /\ setupError' = failAt
    /\ UNCHANGED <<exitCode, registry, visible, minimized, focus, lastEvent,
                   ops, nEvents, visibleBefore>>

\* The setup closure: menu items, menu, tray icon, shortcut registration.
\* A failure before the registration aborts startup (? and unwrap, then the
\* expect on run); a failed registration is logged and setup returns Ok.
setup(failAt) ==
    /\ status = "setup"
    /\ IF failAt \in {"quit_i", "show_hide_i", "toggle_launcher_i", "menu",
                      "icon", "tray"}
       THEN /\ status' = "aborted"
            /\ UNCHANGED <<trayBuilt, registered, logged>>
       ELSE /\ status' = "running"
            /\ trayBuilt' = TRUE
            /\ registered' = (failAt # "shortcut")
            /\ logged' = (failAt = "shortcut")
    /\ setupError' = failAt
    /\ UNCHANGED <<exitCode, registry, visible, minimized, focus, lastEvent,
                   ops, nEvents, visibleBefore>>

Setup == \E failAt \in SetupFailures : setup(failAt)

Init ==
    /\ status = "setup"
    /\ exitCode = {}
    /\ registry \in SUBSET Windows
    /\ visible \in [Windows -> BOOLEAN]
    /\ minimized \in [Windows -> BOOLEAN]
    /\ \A w \in Windows \ registry : ~visible[w] /\ ~minimized[w]
    /\ focus \in {"none"} \cup {w \in registry : visible[w] /\ ~minimized[w]}
    /\ trayBuilt = FALSE
    /\ registered = FALSE
    /\ logged = FALSE
    /\ lastEvent = NoEvent
    /\ ops = <<>>
    /\ nEvents = 0
    /\ visibleBefore = visible
    /\ setupError = "none"

Next == Setup \/ MenuEvent \/ TrayIconEvent \/ ShortcutEvent \/ WindowEvent

Spec == Init /\ [][Next]_vars

TypeOK ==
    /\ status \in {"setup", "running", "exited", "aborted", "crashed"}
    /\ exitCode \in SUBSET {0}
    /\ registry \subseteq Windows
    /\ visible \in [Windows -> BOOLEAN]
    /\ minimized \in [Windows -> BOOLEAN]
    /\ focus \in Windows \cup {"none"}
    /\ nEvents \in 0..MaxEvents
    /\ visibleBefore \in [Windows -> BOOLEAN]
    /\ setupError \in SetupFailures

----------------------------------------------------------------------------
\* Vocabulary of the properties.

\* The step dispatched an event (it is never a stuttering step).
Stepped == nEvents' = nEvents + 1

IsMenu(e, id) == e.kind = "menu" /\ e.id = id
IsLeftClick(e) == e.kind = "tray" /\ e.id = "Click" /\ e.button = "Left"
IsShortcut(e, state) == e.kind = "shortcut" /\ e.state = state
IsClose(e) == e.kind = "window" /\ e.id = "CloseRequested"

IsMainToggle(e) == IsMenu(e, "show_hide") \/ IsLeftClick(e)
IsLauncherToggle(e) == IsMenu(e, "toggle_launcher") \/ IsShortcut(e, "Pressed")

\* Every call of that name in the log succeeded / one was made.
CallOk(log, call) == \A i \in 1..Len(log) : log[i].call = call => log[i].ok
AllOk(log) == \A i \in 1..Len(log) : log[i].ok
AllOn(log, w) == \A i \in 1..Len(log) : log[i].window = w
Issued(log, call) == \E i \in 1..Len(log) : log[i].call = call

\* The names of the calls of a log, the visibility query left out.
IsOperation(c) == c.call # "is_visible"
Operations(log) ==
    LET sel == SelectSeq(log, IsOperation)
    IN  [i \in 1..Len(sel) |-> sel[i].call]

WindowsUnchanged == UNCHANGED <<visible, minimized, focus>>

----------------------------------------------------------------------------
\* C1 (as stated): whenever "main" resolves, its visibility after a
\* "show_hide" menu event or a tray left-click is the negation of its
\* visibility before the event.
C1_AsStated ==
    [][Stepped /\ IsMainToggle(lastEvent') /\ "main" \in registry
         => visible'["main"] = ~visible["main"]]_vars

\* C1 (amended): whenever "main" resolves and the visibility query and
\* the show or hide call of the handler succeed, the visibility of "main"
\* after a "show_hide" menu event or a tray left-click is the negation of its
\* visibility before the event.
C1_ToggleMain ==
    [][Stepped /\ IsMainToggle(lastEvent') /\ "main" \in registry
       /\ CallOk(ops', "is_visible") /\ CallOk(ops', "show") /\ CallOk(ops', "hide")
         => visible'["main"] = ~visible["main"]]_vars

C1_Witness ==
    /\ IsLeftClick(lastEvent) /\ "main" \in registry /\ status = "running"
    /\ Operations(ops) = <<"hide">> /\ CallOk(ops, "is_visible") /\ CallOk(ops, "hide")
    /\ ~visible["main"]

\* C2 (as stated): a "toggle_launcher" menu event or a hotkey press that
\* takes the launcher from hidden to visible leaves it un-minimized and
\* holding the focus.
C2_AsStated ==
    [][Stepped /\ IsLauncherToggle(lastEvent')
       /\ ~visible["launcher"] /\ visible'["launcher"]
         => ~minimized'["launcher"] /\ focus' = "launcher"]_vars

\* C2 (amended): a "toggle_launcher" menu event or a hotkey press that
\* takes the launcher from hidden to visible also issues unminimize and
\* set_focus on the launcher in the same handler run; the launcher is
\* un-minimized if the unminimize call succeeds and holds the focus if the
\* set_focus call succeeds.
C2_ShowLauncher ==
    [][Stepped /\ IsLauncherToggle(lastEvent')
       /\ ~visible["launcher"] /\ visible'["launcher"]
         => /\ Issued(ops', "unminimize") /\ Issued(ops', "set_focus")
            /\ AllOn(ops', "launcher")
            /\ CallOk(ops', "unminimize") => ~minimized'["launcher"]
            /\ CallOk(ops', "set_focus") => focus' = "launcher"]_vars

C2_Witness ==
    /\ IsShortcut(lastEvent, "Pressed") /\ registered /\ status = "running"
    /\ Operations(ops) = <<"show", "unminimize", "set_focus">>
    /\ AllOk(ops)
    /\ visible["launcher"] /\ ~minimized["launcher"] /\ focus = "launcher"
    /\ nEvents = 1

\* C3 (as stated): whenever the launcher is visible and resolvable and the
\* hotkey is pressed or "toggle_launcher" is selected, the launcher is hidden
\* after the event and hide is the only window operation performed.
C3_AsStated ==
    [][Stepped /\ IsLauncherToggle(lastEvent') /\ "launcher" \in registry
       /\ visible["launcher"]
         => ~visible'["launcher"] /\ Operations(ops') = <<"hide">>]_vars

\* C3 (amended): whenever the launcher is visible and resolvable, the
\* visibility query succeeds, and "toggle_launcher" is selected or the hotkey
\* is pressed while its registration succeeded, hide is the only window
\* operation performed (no show, unminimize or set_focus call), and the
\* launcher is hidden after the event if that hide call succeeds.
C3_HideLauncher ==
    [][Stepped /\ "launcher" \in registry /\ visible["launcher"]
       /\ \/ IsMenu(lastEvent', "toggle_launcher")
          \/ IsShortcut(lastEvent', "Pressed") /\ registered
       /\ CallOk(ops', "is_visible")
         => /\ Operations(ops') = <<"hide">>
            /\ CallOk(ops', "hide") => ~visible'["launcher"]]_vars

C3_Witness ==
    /\ IsShortcut(lastEvent, "Pressed") /\ registered /\ status = "running"
    /\ "launcher" \in registry /\ ~visible["launcher"]
    /\ Operations(ops) = <<"hide">> /\ AllOk(ops)

\* C4: a close request never destroys its window: exactly one hide of the
\* source window and exactly one cancellation of the default close action
\* occur, the hide first, and the window and the process survive.
C4_CloseHidesAndCancels ==
    [][Stepped /\ IsClose(lastEvent')
         => /\ Operations(ops') = <<"hide", "prevent_close">>
            /\ AllOn(ops', lastEvent'.window)
            /\ lastEvent'.window \in registry'
            /\ status' = "running"]_vars

\* C5: after a close request on "main", "main" is hidden, the process is
\* running and "main" still resolves; and no handler ever adds or removes an
\* entry of the window registry.
C5_MainSurvivesClose ==
    [][/\ Stepped /\ IsClose(lastEvent') /\ lastEvent'.window = "main"
            => ~visible'["main"] /\ status' = "running" /\ "main" \in registry'
       /\ registry' = registry]_vars

\* C6: when the registration of the hotkey fails, setup still completes with
\* the tray built, and afterwards the tray menu actions, the tray left-click
\* and the close interceptor do what they do otherwise ("show_hide" and the
\* left-click toggle "main", "toggle_launcher" toggles the launcher, "quit"
\* exits with code 0, a close request hides its window and keeps it), while
\* hotkey events change nothing.
C6_HotkeyIndependence ==
    [][/\ status = "setup" /\ logged'
            => status' = "running" /\ trayBuilt' /\ ~registered'
       /\ Stepped /\ ~registered =>
            /\ lastEvent'.kind = "shortcut"
                 => WindowsUnchanged /\ ops' = <<>> /\ status' = "running"
            /\ IsMainToggle(lastEvent') /\ "main" \in registry
               /\ AllOk(ops')
                 => visible'["main"] = ~visible["main"] /\ ops' # <<>>
            /\ IsMenu(lastEvent', "toggle_launcher") /\ "launcher" \in registry
               /\ AllOk(ops')
                 => visible'["launcher"] = ~visible["launcher"] /\ ops' # <<>>
            /\ IsMenu(lastEvent', "quit")
                 => status' = "exited" /\ exitCode' = {0}
            /\ IsClose(lastEvent') /\ CallOk(ops', "hide")
                 => /\ ~visible'[lastEvent'.window]
                    /\ Operations(ops') = <<"hide", "prevent_close">>
                    /\ status' = "running"]_vars

C6_Witness ==
    /\ status = "running" /\ logged /\ ~registered /\ trayBuilt
    /\ IsMenu(lastEvent, "show_hide") /\ "main" \in registry
    /\ Operations(ops) = <<"show", "set_focus">>
    /\ AllOk(ops)
    /\ visible["main"] /\ nEvents = 2

\* C7: when the handle of the target window does not resolve, a toggle event
\* (menu "show_hide", menu "toggle_launcher", tray left-click, hotkey press)
\* changes no window's visibility, minimized state or focus, makes no call,
\* and the process keeps running.
C7_MissingHandleNoOp ==
    [][Stepped
       /\ \/ IsMainToggle(lastEvent') /\ "main" \notin registry
          \/ IsLauncherToggle(lastEvent') /\ "launcher" \notin registry
         => /\ WindowsUnchanged
            /\ ops' = <<>>
            /\ status' = "running" /\ exitCode' = {}
            /\ registry' = registry]_vars

C7_Witness ==
    /\ IsShortcut(lastEvent, "Pressed") /\ registered
    /\ "launcher" \notin registry /\ "main" \in registry /\ visible["main"]
    /\ ops = <<>> /\ status = "running" /\ nEvents = 2

\* C8: the process leaves the running state only by the "quit" menu action;
\* no other event terminates it, whatever calls fail.
C8_OnlyQuitTerminates ==
    [][status = "running" /\ status' # "running"
         => IsMenu(lastEvent', "quit")]_vars

\* C9: "quit" can be selected in every running state and terminates the
\* process with exit code 0, making no call on any window and leaving every
\* window as it was.
C9_QuitExitsZero ==
    /\ [](status = "running" /\ nEvents < MaxEvents => ENABLED MenuEventId("quit"))
    /\ [][Stepped /\ IsMenu(lastEvent', "quit")
            => /\ status' = "exited" /\ exitCode' = {0}
               /\ ops' = <<>>
               /\ WindowsUnchanged]_vars

C9_Witness ==
    /\ IsMenu(lastEvent, "quit") /\ status = "exited" /\ exitCode = {0}
    /\ registry = {} /\ nEvents = 3

\* C10: once the hotkey is registered, every "Pressed" event runs the
\* launcher toggle (the query, then hide if the launcher is seen visible,
\* else show, unminimize, set_focus) and a "Released" event makes no call and
\* leaves every window's visibility, minimized state and focus unchanged.
C10_PressedOnly ==
    [][Stepped /\ registered /\ lastEvent'.kind = "shortcut" =>
         /\ lastEvent'.state = "Pressed" /\ "launcher" \in registry
              => /\ ops' # <<>> /\ ops'[1].call = "is_visible"
                 /\ Operations(ops') =
                      IF ops'[1].ok /\ visible["launcher"]
                      THEN <<"hide">>
                      ELSE <<"show", "unminimize", "set_focus">>
                 /\ AllOk(ops')
                      => visible'["launcher"] = ~visible["launcher"]
         /\ lastEvent'.state = "Released"
              => WindowsUnchanged /\ ops' = <<>> /\ status' = "running"]_vars

C10_Witness ==
    /\ IsShortcut(lastEvent, "Released") /\ registered /\ status = "running"
    /\ "launcher" \in registry /\ visible["launcher"] /\ ops = <<>>
    /\ nEvents = 2

----------------------------------------------------------------------------
\* The names of all the calls of a log, the visibility query included.
Calls(log) == [i \in 1..Len(log) |-> log[i].call]

C12_OtherEventsIgnored ==
    [][Stepped
       /\ \/ lastEvent'.kind = "tray" /\ ~IsLeftClick(lastEvent')
          \/ lastEvent'.kind = "menu"
             /\ lastEvent'.id \notin {"quit", "show_hide", "toggle_launcher"}
         => /\ WindowsUnchanged
            /\ ops' = <<>>
            /\ registry' = registry
            /\ status' = "running" /\ exitCode' = {}]_vars

C12_Witness ==
    /\ lastEvent.kind = "tray" /\ lastEvent.id = "Click"
    /\ lastEvent.button = "Right" /\ lastEvent.state = "Up"
    /\ "main" \in registry /\ visible["main"] /\ visibleBefore["main"]
    /\ ops = <<>> /\ status = "running" /\ nEvents = 1

\* C13: when the construction of a tray menu item, of the menu or of the tray
\* icon fails, startup is aborted: the hotkey is never registered, no menu,
\* tray, hotkey or window event is ever dispatched, and the application never
\* reaches the running state.
ConstructionFailures == {"quit_i", "show_hide_i", "toggle_launcher_i", "menu", "tray"}

C13_SetupFailureAborts ==
    /\ [](setupError \in ConstructionFailures
            => /\ status = "aborted"
               /\ ~registered
               /\ nEvents = 0 /\ lastEvent = NoEvent /\ ops = <<>>
               /\ ~ENABLED Next)
    /\ [][(setupError \in ConstructionFailures)
            => status' = "aborted" /\ ~registered' /\ nEvents' = 0]_vars
    /\ [][status = "setup" /\ setupError' \in ConstructionFailures
            => status' = "aborted" /\ ~registered']_vars

C13_Witness ==
    /\ setupError = "tray" /\ status = "aborted" /\ ~registered /\ ~trayBuilt
    /\ registry = Windows /\ nEvents = 0

\* C14: when hide fails inside the close interceptor the handler crashes at
\* that call: hide is the only call made, no cancellation of the default
\* close action is issued, and the process is no longer running.
C14_CloseHideFailureFatal ==
    [][Stepped /\ IsClose(lastEvent') /\ ~CallOk(ops', "hide")
         => /\ Calls(ops') = <<"hide">>
            /\ ~Issued(ops', "prevent_close")
            /\ status' = "crashed"
            /\ WindowsUnchanged]_vars

C14_Witness ==
    /\ IsClose(lastEvent) /\ lastEvent.window = "main" /\ status = "crashed"
    /\ Calls(ops) = <<"hide">> /\ ~AllOk(ops)
    /\ "main" \in registry /\ visible["main"]

\* The toggle handler of the event ran on a resolved window.
ToggleRan(e, reg, bound) ==
    \/ IsMainToggle(e) /\ "main" \in reg
    \/ IsMenu(e, "toggle_launcher") /\ "launcher" \in reg
    \/ IsShortcut(e, "Pressed") /\ "launcher" \in reg /\ bound

ShowBranch(e) ==
    IF IsMainToggle(e)
    THEN <<"show", "set_focus">>
    ELSE <<"show", "unminimize", "set_focus">>

\* C15: in the tray-menu, tray-click and hotkey handlers a failed show, hide,
\* set_focus or unminimize is swallowed: whatever calls fail, the handler
\* issues every call of its branch exactly once (hide alone, or show, then
\* unminimize for the launcher, then set_focus), the process keeps running
\* with no exit code, and the next event can be dispatched.
C15_FailuresSwallowed ==
    /\ [][Stepped /\ ToggleRan(lastEvent', registry, registered)
            => /\ Operations(ops') \in {<<"hide">>, ShowBranch(lastEvent')}
               /\ Len(ops') = Len(Operations(ops')) + 1
               /\ status' = "running" /\ exitCode' = {}
               /\ registry' = registry]_vars
    /\ [](status = "running" /\ nEvents < MaxEvents /\ ~AllOk(ops)
            /\ ToggleRan(lastEvent, registry, registered)
            => ENABLED MenuEvent /\ ENABLED TrayIconEvent /\ ENABLED ShortcutEvent)

C15_Witness ==
    /\ IsMenu(lastEvent, "show_hide") /\ "main" \in registry
    /\ ops = << [window |-> "main", call |-> "is_visible", ok |-> TRUE],
               [window |-> "main", call |-> "show", ok |-> FALSE],
               [window |-> "main", call |-> "set_focus", ok |-> TRUE] >>
    /\ ~visible["main"] /\ focus = "main" /\ status = "running"

\* C16: when a "toggle_launcher" menu event or a hotkey press takes the
\* launcher from hidden to visible, the calls of that run are show, then
\* unminimize, then set_focus: the focus is never requested before the
\* launcher is un-minimized.
C16_UnminimizeBeforeFocus ==
    [][Stepped /\ IsLauncherToggle(lastEvent')
       /\ ~visible["launcher"] /\ visible'["launcher"]
         => /\ Operations(ops') = <<"show", "unminimize", "set_focus">>
            /\ \A i, j \in 1..Len(ops') :
                 ops'[i].call = "unminimize" /\ ops'[j].call = "set_focus" => i < j]_vars

C16_Witness ==
    /\ IsMenu(lastEvent, "toggle_launcher") /\ status = "running"
    /\ ~visibleBefore["launcher"] /\ visible["launcher"]
    /\ Operations(ops) = <<"show", "unminimize", "set_focus">>
    /\ ~minimized["launcher"]

\* C17: in every toggle handler, when the visibility query on the resolved
\* window fails the window is taken as not visible: the handler makes the
\* calls of the show branch (show, unminimize for the launcher, set_focus)
\* and no hide, even if the window is visible.
C17_QueryFailureShows ==
    [][Stepped /\ ToggleRan(lastEvent', registry, registered)
       /\ ~CallOk(ops', "is_visible")
         => /\ Operations(ops') = ShowBranch(lastEvent')
            /\ ~Issued(ops', "hide")]_vars

C17_Witness ==
    /\ IsLeftClick(lastEvent) /\ "main" \in registry /\ status = "running"
    /\ visibleBefore["main"] /\ visible["main"]
    /\ ~CallOk(ops, "is_visible")
    /\ Operations(ops) = <<"show", "set_focus">>

\* Window w does not gain the input focus in the step.
NoFocusGain(w) == focus' = w => focus = w

\* C18: each event acts on its own target window only.  "show_hide" and the
\* tray left-click make calls on "main" alone, leave the visibility and the
\* minimized state of the launcher unchanged, request no focus for it, and
\* leave the minimized state of "main" unchanged; "toggle_launcher" and the
\* hotkey make calls on the launcher alone and leave the visibility and the
\* minimized state of "main" unchanged, requesting no focus for it; a close
\* request makes no call but hide and the cancellation, both on its source
\* window, and changes no other window's visibility and no minimized state.
\* (The input focus is exclusive: it leaves a window that is hidden or when
\* another window is focused; no window gains it unless requested.)
C18_OnlyTargetChanges ==
    [][Stepped =>
         /\ IsMainToggle(lastEvent')
              => /\ AllOn(ops', "main")
                 /\ visible'["launcher"] = visible["launcher"]
                 /\ minimized' = minimized
                 /\ NoFocusGain("launcher")
         /\ IsLauncherToggle(lastEvent')
              => /\ AllOn(ops', "launcher")
                 /\ visible'["main"] = visible["main"]
                 /\ minimized'["main"] = minimized["main"]
                 /\ NoFocusGain("main")
         /\ IsClose(lastEvent')
              => /\ AllOn(ops', lastEvent'.window)
                 /\ \A i \in 1..Len(ops') : ops'[i].call \in {"hide", "prevent_close"}
                 /\ \A v \in Windows \ {lastEvent'.window} : visible'[v] = visible[v]
                 /\ minimized' = minimized
                 /\ NoFocusGain("main") /\ NoFocusGain("launcher")
                 /\ focus' # focus => focus = lastEvent'.window]_vars

C18_Witness ==
    /\ IsLeftClick(lastEvent) /\ registry = Windows /\ status = "running"
    /\ Operations(ops) = <<"show", "set_focus">> /\ AllOk(ops)
    /\ visible["main"] /\ minimized["main"] /\ focus = "main"
    /\ visible["launcher"] /\ minimized["launcher"]

\* The tray handler ran the toggle of "main" exactly once: one query, then
\* hide alone or show and set_focus.
MainToggledOnce(log) ==
    /\ Operations(log) \in {<<"hide">>, <<"show", "set_focus">>}
    /\ Len(log) = Len(Operations(log)) + 1
    /\ AllOn(log, "main")

\* C19 (as stated): every delivered Click event with the Left button runs the
\* toggle of "main" once, whatever its button state, and two consecutive Left
\* Click events return "main" to its original visibility.
C19_AsStated ==
    /\ [][Stepped /\ IsLeftClick(lastEvent') /\ "main" \in registry
            => MainToggledOnce(ops')]_vars
    /\ [][Stepped /\ IsLeftClick(lastEvent) /\ IsLeftClick(lastEvent')
            => visible'["main"] = visibleBefore["main"]]_vars

\* C19 (amended): every delivered Click event with the Left button runs the
\* toggle of "main" once, whatever its button state (pressed or released),
\* and two consecutive Left Click events return "main" to its original
\* visibility when the visibility query and the show or hide call of both
\* runs succeed.
ToggleCallsOk(log) ==
    CallOk(log, "is_visible") /\ CallOk(log, "show") /\ CallOk(log, "hide")

C19_EveryLeftClickToggles ==
    /\ [][Stepped /\ IsLeftClick(lastEvent') /\ "main" \in registry
            => MainToggledOnce(ops')]_vars
    /\ [][Stepped /\ IsLeftClick(lastEvent) /\ IsLeftClick(lastEvent')
          /\ ToggleCallsOk(ops) /\ ToggleCallsOk(ops')
            => visible'["main"] = visibleBefore["main"]]_vars

C19_Witness ==
    /\ IsLeftClick(lastEvent) /\ lastEvent.state = "Down" /\ nEvents = 2
    /\ "main" \in registry /\ status = "running"
    /\ Operations(ops) = <<"hide">> /\ AllOk(ops)
    /\ visibleBefore["main"] /\ ~visible["main"]
====
